---- MODULE Spec2Model ----
(***************************************************************************)
(* Model of the heliosphere RPC client (src/heliosphere/src/client).       *)
(*                                                                         *)
(* One client, built once, runs one operation per behaviour.  An operation *)
(* is a chain of handlers separated by its await points: a handler takes   *)
(* the response of the request in flight (any response the transport can   *)
(* deliver), interprets it as the code does, and either returns or sends   *)
(* the next request.  `log' records what the operation did: requests,      *)
(* responses (by class), sleeps, signer invocations.                       *)
(***************************************************************************)
EXTENDS Integers, Sequences, FiniteSets, TLC

VARIABLES
    rpc_url,        \* RpcClient.rpc_url
    poll_interval,  \* RpcClient.poll_interval
    op,             \* the operation the caller invoked, with its arguments
    pc,             \* await point the operation is suspended at
    tx,             \* deploy_contract: local tx
    txid,           \* the transaction id await_confirmation polls for
    energy_fee,     \* estimate_fee_limit: local energy_fee
    resp,           \* the response consumed by the handler that ended the operation
    result,         \* what the operation returned (or that it panicked)
    log             \* observable events of the operation, in order

vars == <<rpc_url, poll_interval, op, pc, tx, txid, energy_fee, resp, result, log>>

-----------------------------------------------------------------------------
(* Bounds of the model *)

\* polls a single await_confirmation may issue before the model stops it
MaxPolls == 3
\* longest broadcast error message, in characters
MaxMsgLen == 4
\* width of the machine word standing for u64 / i64 (2^U64Bits values)
U64Bits == 20

-----------------------------------------------------------------------------
(* Option and Result *)

None == [some |-> FALSE]
Some(v) == [some |-> TRUE, v |-> v]

Ok(v) == [tag |-> "Ok", v |-> v]
Err(kind, d) == [tag |-> "Err", kind |-> kind, d |-> d]
Panic(d) == [tag |-> "Panic", d |-> d]

\* reqwest failure: network error, URL join error or a body that does not
\* deserialize into the type the caller asked for
TransportFailure == [transport |-> "error"]
TransportErr == Err("Transport", "reqwest")

-----------------------------------------------------------------------------
(* Strings of broadcast messages are sequences of code points *)

\* '4', 'a', 'c', 'g'
MsgChars == {52, 97, 99, 103}

RECURSIVE SeqsUpTo(_, _)
SeqsUpTo(S, n) ==
    IF n = 0 THEN {<<>>}
    ELSE LET shorter == SeqsUpTo(S, n - 1)
         IN  shorter \cup {Append(s, c) : s \in {t \in shorter : Len(t) = n - 1}, c \in S}

Messages == SeqsUpTo(MsgChars, MaxMsgLen)

\* hex::decode: value of one hex digit, -1 for any other character
HexVal(c) ==
    IF c \in 48..57 THEN c - 48
    ELSE IF c \in 97..102 THEN c - 87
    ELSE IF c \in 65..70 THEN c - 55
    ELSE -1

\* hex::decode(s).ok()
HexDecode(s) ==
    IF Len(s) % 2 # 0 \/ \E i \in 1..Len(s) : HexVal(s[i]) = -1
    THEN None
    ELSE Some([i \in 1..(Len(s) \div 2) |-> 16 * HexVal(s[2 * i - 1]) + HexVal(s[2 * i])])

IsCont(b) == b \in 128..191

\* number of bytes of the well-formed UTF-8 sequence b starts with, 0 if none
Utf8Width(b) ==
    LET n == Len(b)
        b1 == b[1]
    IN  IF b1 < 128 THEN 1
        ELSE IF b1 \in 194..223 /\ n >= 2 /\ IsCont(b[2]) THEN 2
        ELSE IF b1 = 224 /\ n >= 3 /\ b[2] \in 160..191 /\ IsCont(b[3]) THEN 3
        ELSE IF b1 \in (225..236) \cup (238..239) /\ n >= 3 /\ IsCont(b[2]) /\ IsCont(b[3]) THEN 3
        ELSE IF b1 = 237 /\ n >= 3 /\ b[2] \in 128..159 /\ IsCont(b[3]) THEN 3
        ELSE IF b1 = 240 /\ n >= 4 /\ b[2] \in 144..191 /\ IsCont(b[3]) /\ IsCont(b[4]) THEN 4
        ELSE IF b1 \in 241..243 /\ n >= 4 /\ IsCont(b[2]) /\ IsCont(b[3]) /\ IsCont(b[4]) THEN 4
        ELSE IF b1 = 244 /\ n >= 4 /\ b[2] \in 128..143 /\ IsCont(b[3]) /\ IsCont(b[4]) THEN 4
        ELSE 0

Utf8CodePoint(b, w) ==
    CASE w = 1 -> b[1]
      [] w = 2 -> (b[1] - 192) * 64 + (b[2] - 128)
      [] w = 3 -> (b[1] - 224) * 4096 + (b[2] - 128) * 64 + (b[3] - 128)
      [] w = 4 -> (b[1] - 240) * 262144 + (b[2] - 128) * 4096 + (b[3] - 128) * 64 + (b[4] - 128)

\* String::from_utf8(b).ok()
RECURSIVE FromUtf8(_)
FromUtf8(b) ==
    IF b = <<>> THEN Some(<<>>)
    ELSE LET w == Utf8Width(b)
         IN  IF w = 0 THEN None
             ELSE LET rest == FromUtf8(SubSeq(b, w + 1, Len(b)))
                  IN  IF rest.some THEN Some(<<Utf8CodePoint(b, w)>> \o rest.v) ELSE None

-----------------------------------------------------------------------------
(* serde_json::Value, as far as deploy_contract looks into it *)

JStr(s) == [t |-> "str", s |-> s]
JNum(n) == [t |-> "num", n |-> n]
JObj(f) == [t |-> "obj", f |-> f]
NoFields == [k \in {} |-> 0]
Field(k, v) == [x \in {k} |-> v]

\* Value::get(key): Some only on an object that has the key
JGet(v, k) == IF v.t = "obj" /\ k \in DOMAIN v.f THEN Some(v.f[k]) ELSE None

\* an as_str that gives a number as its text
JAsStr_NumbersToo(v) ==
    IF v.t = "str" THEN Some(v.s)
    ELSE IF v.t = "num" THEN Some("7") ELSE None

\* Value::as_str()
JAsStr(v) == IF v.t = "str" THEN Some(v.s) ELSE None

-----------------------------------------------------------------------------
(* Entities *)

TxIds == {"txA", "txB"}

\* a Transaction as the server constructs it: not yet signed
Transactions == {[txID |-> i, signature |-> <<>>] : i \in TxIds}

Addresses == {"addr1", "addr2"}

\* textual forms an address may arrive in: Base58 and hex name the same
\* address; the last one is not an address
AddrStrings == {"TXaddr1", "41addr1", "TXaddr2", "not-an-address"}

\* <Address as FromStr>::from_str
ParseAddress(s) ==
    CASE s = "TXaddr1" -> Some("addr1")
      [] s = "41addr1" -> Some("addr1")
      [] s = "TXaddr2" -> Some("addr2")
      [] OTHER -> None

\* Signer::sign_transaction(&mut tx): attaches a signature or fails
SignOutcomes == {"signed", "refused"}
SignTransaction(t, outcome) ==
    IF outcome = "signed"
    THEN [r |-> Ok("unit"), tx |-> [t EXCEPT !.signature = Append(@, "sig")]]
    ELSE [r |-> Err("Signer", "refused"), tx |-> t]

SignedTransactions == {SignTransaction(t, "signed").tx : t \in Transactions}

-----------------------------------------------------------------------------
(* Responses the transport can deliver, per endpoint *)

ErrorCodes == {"SIGERROR"}

\* /wallet/broadcasttransaction -> BroadcastTxResponse
BroadcastBodies ==
    [code : {None} \cup {Some(c) : c \in ErrorCodes},
     message : {None} \cup {Some(m) : m \in Messages},
     txid : TxIds]
BroadcastResponses == {TransportFailure} \cup BroadcastBodies

ContractRets == {"SUCCESS", "REVERT"}
RetLists == SeqsUpTo(ContractRets, 2)

ContractAddressValues == {JStr(a) : a \in AddrStrings} \cup {JNum(7)}
NewContractValues ==
    {JObj(NoFields), JStr("x")}
    \cup {JObj(Field("contract_address", l)) : l \in ContractAddressValues}
ValueValues ==
    {JObj(NoFields), JStr("x"), JObj(Field("contract_address", JStr("TXaddr1")))}
    \cup {JObj(Field("new_contract", x)) : x \in NewContractValues}
Parameters ==
    {JObj(NoFields), JStr("x")}
    \cup {JObj(Field("new_contract", x)) : x \in NewContractValues}
    \cup {JObj(Field("value", x)) : x \in ValueValues}

ContractLists ==
    {<<>>} \cup {<<[parameter |-> p]>> : p \in Parameters}
    \cup {<<[parameter |-> JObj(NoFields)],
            [parameter |-> JObj(Field("value", JObj(Field("new_contract",
                 JObj(Field("contract_address", JStr("TXaddr2")))))))]>>}

\* /walletsolidity/gettransactionbyid -> serde_json::Value: any of its
\* fields may be there or not
SolidityBodies ==
    [txID : {None} \cup {Some(i) : i \in TxIds},
     ret : {None} \cup {Some(r) : r \in RetLists},
     contract : {None} \cup {Some(c) : c \in ContractLists}]
SolidityResponses == {TransportFailure} \cup SolidityBodies

-----------------------------------------------------------------------------
(* broadcast_transaction *)

\* "Unknown error"
UnknownError == <<85, 110, 107, 110, 111, 119, 110, 32, 101, 114, 114, 111, 114>>

\* the message of TxConstructionFailed: hex::decode(..).ok()
\*   .and_then(|x| String::from_utf8(x).ok()).unwrap_or(..)
DecodeMessage(message) ==
    LET bytes == HexDecode(message.v)
        text == IF bytes.some THEN FromUtf8(bytes.v) ELSE None
    IN  IF text.some THEN text.v
        ELSE IF message.some THEN message.v ELSE UnknownError

\* broadcast_transaction, from the response of api_post on
BroadcastResult(r) ==
    IF r = TransportFailure THEN TransportErr
    ELSE IF r.code.some
         THEN IF ~r.message.some
              THEN Panic("unwrap on None")
              ELSE Err("TxConstructionFailed", <<r.code.v, DecodeMessage(r.message)>>)
         ELSE Ok(r.txid)

-----------------------------------------------------------------------------
(* solidity_get_tx_by_id and await_confirmation *)

\* a from_value that takes a value of the wrong shape for "not found"
InfoFromValue_Lenient(b) ==
    IF b.ret.some /\ b.contract.some
    THEN Ok(Some([txID |-> b.txID.v, ret |-> b.ret.v, contract |-> b.contract.v]))
    ELSE Ok(None)

\* serde_json::from_value::<SolidityTransactionInfo>
InfoFromValue(b) ==
    IF b.ret.some /\ b.contract.some
    THEN Ok(Some([txID |-> b.txID.v, ret |-> b.ret.v, contract |-> b.contract.v]))
    ELSE Err("UnknownResponse", "from_value")

\* a solidity_get_tx_by_id that takes a failed request for "not found"
SolidityGetTxById_SwallowsTransport(r) ==
    IF r = TransportFailure THEN Ok(None)
    ELSE IF ~r.txID.some THEN Ok(None)
    ELSE InfoFromValue(r)

\* solidity_get_tx_by_id, from the response of api_post on
SolidityGetTxById(r) ==
    IF r = TransportFailure THEN TransportErr
    ELSE IF ~r.txID.some THEN Ok(None)
    ELSE InfoFromValue(r)

\* a match that takes a found transaction without results for a pending one
ConfirmationMatch_EmptyIsPending(t) ==
    IF t.some /\ t.v.ret # <<>> /\ t.v.ret[1] = "SUCCESS" THEN Some(Ok(t.v))
    ELSE IF t.some /\ t.v.ret # <<>> THEN Some(Err("TxFailed", t.v.ret[1]))
    ELSE None

\* a match that polls again when the transaction is found to have failed
ConfirmationMatch_RetriesFailure(t) ==
    IF t.some /\ t.v.ret # <<>> /\ t.v.ret[1] = "SUCCESS" THEN Some(Ok(t.v))
    ELSE IF t.some /\ t.v.ret = <<>> THEN Some(Err("TxFailed", "empty ret"))
    ELSE None

\* the match of await_confirmation on one poll's Option<info>:
\* what to return, or None to sleep and poll again
ConfirmationMatch(t) ==
    IF t.some /\ t.v.ret # <<>> /\ t.v.ret[1] = "SUCCESS" THEN Some(Ok(t.v))
    ELSE IF t.some
         THEN Some(Err("TxFailed", IF t.v.ret # <<>> THEN t.v.ret[1] ELSE "empty ret"))
         ELSE None

\* a loop that polls again when the poll itself fails
ConfirmationStep_RetriesError(r) ==
    LET t == SolidityGetTxById(r)
    IN  IF t.tag # "Ok" THEN None ELSE ConfirmationMatch(t.v)

\* one iteration of the loop of await_confirmation up to its return or sleep
ConfirmationStep(r) ==
    LET t == SolidityGetTxById(r)
    IN  IF t.tag # "Ok" THEN Some(t) ELSE ConfirmationMatch(t.v)

-----------------------------------------------------------------------------
(* deploy_contract: the address out of the confirmed transaction *)

\* a descent that reports every missing level as the innermost one
DeployedAddress_OneMessage(info) ==
    IF info.contract = <<>> THEN Err("ContractNotFound", "")
    ELSE
    LET value == JGet(info.contract[1].parameter, "value")
        new_contract == IF value.some THEN JGet(value.v, "new_contract") ELSE None
        contract_address ==
            IF new_contract.some THEN JGet(new_contract.v, "contract_address") ELSE None
    IN  IF ~contract_address.some
        THEN Err("UnknownResponse", "no contract_address field")
        ELSE
        LET new_address == JAsStr(contract_address.v)
        IN  IF ~new_address.some
            THEN Err("UnknownResponse", "returned contract_address is not string")
            ELSE
            LET parsed == ParseAddress(new_address.v)
            IN  IF parsed.some THEN Ok(parsed.v)
                ELSE Err("UnknownResponse", <<"Invalid address: ", new_address.v>>)

DeployedAddress(info) ==
    IF info.contract = <<>> THEN Err("ContractNotFound", "")
    ELSE
    LET value == JGet(info.contract[1].parameter, "value")
    IN  IF ~value.some THEN Err("UnknownResponse", "no value field")
        ELSE
        LET new_contract == JGet(value.v, "new_contract")
        IN  IF ~new_contract.some THEN Err("UnknownResponse", "no new_contract field")
            ELSE
            LET contract_address == JGet(new_contract.v, "contract_address")
            IN  IF ~contract_address.some
                THEN Err("UnknownResponse", "no contract_address field")
                ELSE
                LET new_address == JAsStr(contract_address.v)
                IN  IF ~new_address.some
                    THEN Err("UnknownResponse", "returned contract_address is not string")
                    ELSE
                    LET parsed == ParseAddress(new_address.v)
                    IN  IF parsed.some THEN Ok(parsed.v)
                        ELSE Err("UnknownResponse", <<"Invalid address: ", new_address.v>>)

-----------------------------------------------------------------------------
(* Machine integers *)

U64Mod == 2 ^ U64Bits

\* a conversion that drops the sign of a negative value
AsU64_DropsSign(v) == IF v < 0 THEN (0 - v) % U64Mod ELSE v % U64Mod

\* `v as u64` on an i64
AsU64(v) == v % U64Mod

\* a * b on u64: the exact product when it fits; when it does not, a build
\* with overflow checks panics and a build without them wraps
MulU64(a, b) ==
    IF a * b < U64Mod THEN {Ok(a * b)}
    ELSE {Panic("attempt to multiply with overflow"), Ok((a * b) % U64Mod)}

-----------------------------------------------------------------------------
(* query_contract, get_chain_parameters, estimate_fee_limit *)

Energies == {0, 1, 1000}
QueryMessages == {"REVERT opcode executed"}

\* /wallet/triggerconstantcontract -> QueryContractResponse
QueryBodies ==
    [code : {None} \cup {Some(c) : c \in ErrorCodes},
     message : {None} \cup {Some(m) : m \in QueryMessages},
     constant_result : {<<>>, <<"0a">>},
     energy_used : Energies]
QueryResponses == {TransportFailure} \cup QueryBodies

\* a query_contract that looks at the error code before the result list
QueryContract_CodeFirst(r) ==
    IF r = TransportFailure THEN TransportErr
    ELSE IF r.code.some
         THEN IF ~r.message.some
              THEN Panic("unwrap on None")
              ELSE Err("ContractQueryFailed", <<r.code.v, r.message.v>>)
         ELSE IF r.constant_result = <<>> THEN Err("ContractNotFound", "")
         ELSE Ok(r)

\* query_contract, from the response of api_post on
QueryContract(r) ==
    IF r = TransportFailure THEN TransportErr
    ELSE IF r.constant_result = <<>> THEN Err("ContractNotFound", "")
    ELSE IF r.code.some
         THEN IF ~r.message.some
              THEN Panic("unwrap on None")
              ELSE Err("ContractQueryFailed", <<r.code.v, r.message.v>>)
         ELSE Ok(r)

\* estimate_energy, from the response of the query
EstimateEnergy(r) ==
    LET q == QueryContract(r)
    IN  IF q.tag = "Ok" THEN Ok(q.v.energy_used) ELSE q

ParamKeys == {"getEnergyFee", "getTransactionFee"}
Fees == {420, 0, -1, 2100}
ChainParameters == [key : ParamKeys, value : {None} \cup {Some(f) : f \in Fees}]

\* /wallet/getchainparameters -> ChainParametersResponse
ChainParamBodies == [chainParameter : SeqsUpTo(ChainParameters, 2)]
ChainParamResponses == {TransportFailure} \cup ChainParamBodies

\* a collect that keeps the entries without a value, as 0
CollectParameters_KeepsValueless(list) ==
    LET last(k) == CHOOSE i \in 1..Len(list) :
                       /\ list[i].key = k
                       /\ \A j \in (i + 1)..Len(list) : list[j].key # k
    IN  [k \in {list[i].key : i \in 1..Len(list)} |->
            IF list[last(k)].value.some THEN list[last(k)].value.v ELSE 0]

\* filter_map(|p| Some((p.key, p.value?))).collect() into a BTreeMap: the
\* entries without a value are dropped, the last entry of a key wins
CollectParameters(list) ==
    LET kept == SelectSeq(list, LAMBDA p : p.value.some)
        last(k) == CHOOSE i \in 1..Len(kept) :
                       /\ kept[i].key = k
                       /\ \A j \in (i + 1)..Len(kept) : kept[j].key # k
    IN  [k \in {kept[i].key : i \in 1..Len(kept)} |-> kept[last(k)].value.v]

\* get_chain_parameters, from the response of api_get on
GetChainParameters(r) ==
    IF r = TransportFailure THEN TransportErr ELSE Ok(CollectParameters(r.chainParameter))

\* estimate_fee_limit up to its second await: the per-unit fee
\* an energy fee that goes on with 0 when the chain parameters cannot be
\* fetched
EnergyFee_DefaultsOnFailure(r) ==
    LET params == GetChainParameters(r)
    IN  IF params.tag # "Ok" THEN Ok(0)
        ELSE IF "getEnergyFee" \notin DOMAIN params.v
             THEN Err("UnknownResponse", "getEnergyFee not found")
             ELSE Ok(AsU64(params.v["getEnergyFee"]))

EnergyFee(r) ==
    LET params == GetChainParameters(r)
    IN  IF params.tag # "Ok" THEN params
        ELSE IF "getEnergyFee" \notin DOMAIN params.v
             THEN Err("UnknownResponse", "getEnergyFee not found")
             ELSE Ok(AsU64(params.v["getEnergyFee"]))

\* estimate_fee_limit after its second await: the outcomes of
\* estimate_energy(..)? * energy_fee
FeeLimitOutcomes(r, fee) ==
    LET energy == EstimateEnergy(r)
    IN  IF energy.tag # "Ok" THEN {energy} ELSE MulU64(energy.v, fee)

-----------------------------------------------------------------------------
(* get_account_balance *)

\* AccountBalanceResponse: balance is an Option<u64>
Balances == {None, Some(0), Some(500000)}
AccountBodies == [balance : Balances]
AccountResponses == {TransportFailure} \cup AccountBodies

\* a get_account_balance for which a balance of 0 is no balance
GetAccountBalance_ZeroIsMissing(r) ==
    IF r = TransportFailure THEN TransportErr
    ELSE IF r.balance.some /\ r.balance.v # 0 THEN Ok(r.balance.v)
    ELSE Err("AccountNotFound", "")

\* get_account_balance, from the response of api_post on: resp.balance
\*   .ok_or(Error::AccountNotFound)
GetAccountBalance(r) ==
    IF r = TransportFailure THEN TransportErr
    ELSE IF r.balance.some THEN Ok(r.balance.v)
    ELSE Err("AccountNotFound", "")

-----------------------------------------------------------------------------
(* Events *)

Request(path, body) == [ev |-> "request", path |-> path, body |-> body]

\* a response is logged by what the server said, not by what the client
\* made of it
Response(r) ==
    [ev |-> "response", class |-> IF r = TransportFailure THEN "transport_error" ELSE "body"]
\* the responses of the fee estimation are logged with what they carry
Answer(r) ==
    [ev |-> "response", class |-> IF r = TransportFailure THEN "transport_error" ELSE "body",
     body |-> r]
PollAnswer(r) ==
    [ev |-> "response",
     class |-> IF r = TransportFailure THEN "transport_error"
               ELSE IF r.txID.some THEN "found" ELSE "not_found"]

Requests(l) == SelectSeq(l, LAMBDA e : e.ev = "request")
RequestsTo(l, path) == SelectSeq(l, LAMBDA e : e.ev = "request" /\ e.path = path)
Sleeps(l) == SelectSeq(l, LAMBDA e : e.ev = "sleep")
Signs(l) == SelectSeq(l, LAMBDA e : e.ev = "sign")
Responses(l) == SelectSeq(l, LAMBDA e : e.ev = "response")

PollPath == "/walletsolidity/gettransactionbyid"
BroadcastPath == "/wallet/broadcasttransaction"
DeployPath == "/wallet/deploycontract"
TriggerPath == "/wallet/triggersmartcontract"
QueryPath == "/wallet/triggerconstantcontract"
ChainParamsPath == "/wallet/getchainparameters"

\* the request of solidity_get_tx_by_id
PollRequest(id) == Request(PollPath, [value |-> id])

AccountPath == "/wallet/getaccount"

\* the request of get_account_balance
AccountRequest(account) == Request(AccountPath, [address |-> account])

\* a loop that polls again without sleeping
SleepCalls_None(interval) == <<>>

\* tokio::time::sleep(self.poll_interval).await
SleepCalls(interval) == <<[ev |-> "sleep", dur |-> interval]>>

\* the request of query_contract
QueryRequest(call) == Request(QueryPath, [call |-> call])

\* a trigger request that sends the call value where the fee limit belongs
TriggerRequest_ValueAsFee(call, value, fee_limit) ==
    Request(TriggerPath, [call |-> call, fee_limit |-> value, call_value |-> value])

\* the request of trigger_contract
TriggerRequest(call, value, fee_limit) ==
    Request(TriggerPath, [call |-> call, fee_limit |-> fee_limit, call_value |-> value])

-----------------------------------------------------------------------------
(* The client and the operation it runs *)

\* Duration::from_secs(5), the poll interval of RpcClientBuilder::new
DefaultPollInterval == 5
PollIntervals == {DefaultPollInterval, 1}
Urls == {"https://api.shasta.trongrid.io"}

MethodCalls == {"call1"}
CallValues == {0, 7}
FeeLimits == {None, Some(0), Some(100)}

NoResult == [tag |-> "None"]
NoResponse == [transport |-> "none"]

\* RpcClientBuilder::new(url), with_poll_interval(..)?, build()
Init ==
    /\ rpc_url \in Urls
    /\ poll_interval \in PollIntervals
    /\ op = [name |-> "none"]
    /\ pc = "idle"
    /\ tx = None
    /\ txid = None
    /\ energy_fee = None
    /\ resp = NoResponse
    /\ result = NoResult
    /\ log = <<>>

Config == <<rpc_url, poll_interval>>

\* the operation returns r (or panics) on response rsp
Finish(r, rsp) ==
    /\ pc' = IF r.tag = "Panic" THEN "panicked" ELSE "done"
    /\ result' = r
    /\ resp' = rsp

Returned == pc = "done"
Ended == pc \in {"done", "panicked"}

(* await_confirmation *)

Call_await_confirmation ==
    /\ pc = "idle"
    /\ \E id \in TxIds :
        /\ op' = [name |-> "await_confirmation", txid |-> id]
        /\ txid' = Some(id)
        /\ log' = <<PollRequest(id)>>
    /\ pc' = "poll"
    /\ UNCHANGED <<Config, tx, energy_fee, resp, result>>

\* the response of a poll arrives: the rest of the loop iteration, and for
\* deploy_contract what follows await_confirmation
PollResponse ==
    /\ pc = "poll"
    /\ \E r \in SolidityResponses :
        LET step == ConfirmationStep(r)
        IN  IF ~step.some
            THEN /\ pc' = "sleeping"
                 /\ log' = Append(log, PollAnswer(r)) \o SleepCalls(poll_interval)
                 /\ UNCHANGED <<resp, result>>
            ELSE /\ log' = Append(log, PollAnswer(r))
                 /\ IF op.name = "deploy_contract" /\ step.v.tag = "Ok"
                    THEN Finish(DeployedAddress(step.v.v), r)
                    ELSE Finish(step.v, r)
    /\ UNCHANGED <<Config, op, tx, txid, energy_fee>>

\* the sleep is over: next iteration of the loop
SleepDone ==
    /\ pc = "sleeping"
    /\ Len(RequestsTo(log, PollPath)) < MaxPolls
    /\ log' = Append(log, PollRequest(txid.v))
    /\ pc' = "poll"
    /\ UNCHANGED <<Config, op, tx, txid, energy_fee, resp, result>>

(* broadcast_transaction *)

Call_broadcast_transaction ==
    /\ pc = "idle"
    /\ \E sent \in Transactions \cup SignedTransactions :
        /\ op' = [name |-> "broadcast_transaction", tx |-> sent]
        /\ log' = <<Request(BroadcastPath, sent)>>
    /\ pc' = "broadcast"
    /\ UNCHANGED <<Config, tx, txid, energy_fee, resp, result>>

BroadcastResponse ==
    /\ pc = "broadcast"
    /\ \E r \in BroadcastResponses :
        LET b == BroadcastResult(r)
        IN  IF op.name = "deploy_contract" /\ b.tag = "Ok"
            THEN /\ txid' = Some(b.v)
                 /\ log' = log \o <<Response(r), PollRequest(b.v)>>
                 /\ pc' = "poll"
                 /\ UNCHANGED <<resp, result>>
            ELSE /\ log' = Append(log, Response(r))
                 /\ Finish(b, r)
                 /\ UNCHANGED txid
    /\ UNCHANGED <<Config, op, tx, energy_fee>>

(* deploy_contract *)

Call_deploy_contract ==
    /\ pc = "idle"
    /\ op' = [name |-> "deploy_contract"]
    /\ log' = <<Request(DeployPath, [name |-> "contract", visible |-> TRUE])>>
    /\ pc' = "construct"
    /\ UNCHANGED <<Config, tx, txid, energy_fee, resp, result>>

\* a deploy that never asks the signer and broadcasts what the server built
DeploySign_Skipped(t, outcome) ==
    [events |-> <<>>, r |-> Ok("unit"), tx |-> t]

\* deployer.sign_transaction(&mut tx).map_err(SignerError)
DeploySign(t, outcome) ==
    LET s == SignTransaction(t, outcome)
    IN  [events |-> <<[ev |-> "sign", tx |-> t]>>,
         r |-> IF s.r.tag = "Ok" THEN s.r ELSE Err("SignerError", s.r.d),
         tx |-> s.tx]

\* a deploy that broadcasts the transaction whatever the signer said
ConstructResponse_IgnoresSigner ==
    /\ pc = "construct"
    /\ \E r \in {TransportFailure} \cup Transactions, outcome \in SignOutcomes :
        IF r = TransportFailure
        THEN /\ log' = Append(log, Response(r))
             /\ Finish(TransportErr, r)
             /\ UNCHANGED tx
        ELSE LET s == DeploySign(r, outcome)
             IN  /\ tx' = Some(s.tx)
                 /\ log' = Append(log, Response(r)) \o s.events
                               \o <<Request(BroadcastPath, s.tx)>>
                 /\ pc' = "broadcast"
                 /\ UNCHANGED <<resp, result>>
    /\ UNCHANGED <<Config, op, txid, energy_fee>>

\* the constructed transaction arrives: sign it and send it for broadcast
ConstructResponse ==
    /\ pc = "construct"
    /\ \E r \in {TransportFailure} \cup Transactions, outcome \in SignOutcomes :
        IF r = TransportFailure
        THEN /\ log' = Append(log, Response(r))
             /\ Finish(TransportErr, r)
             /\ UNCHANGED tx
        ELSE LET s == DeploySign(r, outcome)
             IN  /\ tx' = Some(s.tx)
                 /\ IF s.r.tag # "Ok"
                    THEN /\ log' = Append(log, Response(r)) \o s.events
                         /\ Finish(s.r, r)
                    ELSE /\ log' = Append(log, Response(r)) \o s.events
                                   \o <<Request(BroadcastPath, s.tx)>>
                         /\ pc' = "broadcast"
                         /\ UNCHANGED <<resp, result>>
    /\ UNCHANGED <<Config, op, txid, energy_fee>>

(* query_contract, estimate_fee_limit, trigger_contract *)

Call_query_contract ==
    /\ pc = "idle"
    /\ \E c \in MethodCalls :
        /\ op' = [name |-> "query_contract", call |-> c]
        /\ log' = <<QueryRequest(c)>>
    /\ pc' = "query"
    /\ UNCHANGED <<Config, tx, txid, energy_fee, resp, result>>

Call_estimate_fee_limit ==
    /\ pc = "idle"
    /\ \E c \in MethodCalls :
        /\ op' = [name |-> "estimate_fee_limit", call |-> c]
        /\ log' = <<Request(ChainParamsPath, "none")>>
    /\ pc' = "chain_params"
    /\ UNCHANGED <<Config, tx, txid, energy_fee, resp, result>>

\* a trigger_contract that sends the request at once, with no estimation
TriggerStart_NoEstimate(c, value, fee_limit) ==
    [pc |-> "trigger",
     log |-> <<TriggerRequest(c, value, IF fee_limit.some THEN fee_limit.v ELSE 0)>>]

\* trigger_contract up to its first await: the trigger request itself when
\* the caller gave a fee limit, the first request of estimate_fee_limit
\* when not
TriggerStart(c, value, fee_limit) ==
    IF fee_limit.some
    THEN [pc |-> "trigger", log |-> <<TriggerRequest(c, value, fee_limit.v)>>]
    ELSE [pc |-> "chain_params", log |-> <<Request(ChainParamsPath, "none")>>]

Call_trigger_contract ==
    /\ pc = "idle"
    /\ \E c \in MethodCalls, value \in CallValues, fee_limit \in FeeLimits :
        LET start == TriggerStart(c, value, fee_limit)
        IN  /\ op' = [name |-> "trigger_contract", call |-> c,
                      value |-> value, fee_limit |-> fee_limit]
            /\ log' = start.log
            /\ pc' = start.pc
    /\ UNCHANGED <<Config, tx, txid, energy_fee, resp, result>>

\* the chain parameters arrive: look the energy fee up, then query the energy
ChainParamsResponse ==
    /\ pc = "chain_params"
    /\ \E r \in ChainParamResponses :
        LET fee == EnergyFee(r)
        IN  IF fee.tag # "Ok"
            THEN /\ log' = Append(log, Answer(r))
                 /\ Finish(fee, r)
                 /\ UNCHANGED energy_fee
            ELSE /\ energy_fee' = Some(fee.v)
                 /\ log' = log \o <<Answer(r), QueryRequest(op.call)>>
                 /\ pc' = "query"
                 /\ UNCHANGED <<resp, result>>
    /\ UNCHANGED <<Config, op, tx, txid>>

\* the answer of the constant call arrives: for query_contract its result,
\* for estimate_fee_limit the product, for trigger_contract the product
\* sent as the fee limit of the trigger request
QueryResponse ==
    /\ pc = "query"
    /\ \E r \in QueryResponses :
        IF op.name = "query_contract"
        THEN /\ log' = Append(log, Answer(r))
             /\ Finish(QueryContract(r), r)
        ELSE \E limit \in FeeLimitOutcomes(r, energy_fee.v) :
                IF op.name = "trigger_contract" /\ limit.tag = "Ok"
                THEN /\ log' = log \o <<Answer(r),
                                        TriggerRequest(op.call, op.value, limit.v)>>
                     /\ pc' = "trigger"
                     /\ UNCHANGED <<resp, result>>
                ELSE /\ log' = Append(log, Answer(r))
                     /\ Finish(limit, r)
    /\ UNCHANGED <<Config, op, tx, txid, energy_fee>>

\* /wallet/triggersmartcontract -> TriggerContractResponse
TriggerResponses == {TransportFailure} \cup [transaction : Transactions]

TriggerResponse ==
    /\ pc = "trigger"
    /\ \E r \in TriggerResponses :
        /\ log' = Append(log, Response(r))
        /\ Finish(IF r = TransportFailure THEN TransportErr ELSE Ok(r.transaction), r)
    /\ UNCHANGED <<Config, op, tx, txid, energy_fee>>


(* solidity_get_tx_by_id, called on its own *)

Call_solidity_get_tx_by_id ==
    /\ pc = "idle"
    /\ \E id \in TxIds :
        /\ op' = [name |-> "solidity_get_tx_by_id", txid |-> id]
        /\ log' = <<PollRequest(id)>>
    /\ pc' = "solidity"
    /\ UNCHANGED <<Config, tx, txid, energy_fee, resp, result>>

SolidityResponse ==
    /\ pc = "solidity"
    /\ \E r \in SolidityResponses :
        /\ log' = Append(log, PollAnswer(r))
        /\ Finish(SolidityGetTxById(r), r)
    /\ UNCHANGED <<Config, op, tx, txid, energy_fee>>

(* get_account_balance *)

Call_get_account_balance ==
    /\ pc = "idle"
    /\ \E a \in Addresses :
        /\ op' = [name |-> "get_account_balance", account |-> a]
        /\ log' = <<AccountRequest(a)>>
    /\ pc' = "account"
    /\ UNCHANGED <<Config, tx, txid, energy_fee, resp, result>>

AccountResponse ==
    /\ pc = "account"
    /\ \E r \in AccountResponses :
        /\ log' = Append(log, Response(r))
        /\ Finish(GetAccountBalance(r), r)
    /\ UNCHANGED <<Config, op, tx, txid, energy_fee>>

-----------------------------------------------------------------------------

Next ==
    \/ Call_await_confirmation
    \/ PollResponse
    \/ SleepDone
    \/ Call_broadcast_transaction
    \/ BroadcastResponse
    \/ Call_deploy_contract
    \/ ConstructResponse
    \/ Call_query_contract
    \/ Call_estimate_fee_limit
    \/ Call_trigger_contract
    \/ ChainParamsResponse
    \/ QueryResponse
    \/ TriggerResponse
    \/ Call_solidity_get_tx_by_id
    \/ SolidityResponse
    \/ Call_get_account_balance
    \/ AccountResponse

Spec == Init /\ [][Next]_vars

-----------------------------------------------------------------------------
(* await_confirmation: C1, C2, C3 *)

Awaiting == op.name = "await_confirmation"

\* the body of a poll response holds a transaction: a txID and the fields
\* of SolidityTransactionInfo
WellFormedInfo(r) == r # TransportFailure /\ r.txID.some /\ r.ret.some /\ r.contract.some

\* C1: in await_confirmation a response in which the transaction is found
\* is the last event of the call (no poll and no sleep after it) and the
\* call has returned on it: Ok(info) when the first entry of its result
\* list is "SUCCESS", TxFailed with the first entry when it is another value.
C1_ReturnsAtFirstFound ==
    Awaiting =>
        \A i \in 1..Len(log) :
            (log[i].ev = "response" /\ log[i].class = "found") =>
                /\ i = Len(log)
                /\ pc = "done"
                /\ (WellFormedInfo(resp) /\ resp.ret.v # <<>>) =>
                      IF resp.ret.v[1] = "SUCCESS"
                      THEN /\ result.tag = "Ok"
                           /\ result.v.txID = resp.txID.v
                           /\ result.v.ret = resp.ret.v
                           /\ result.v.contract = resp.contract.v
                      ELSE /\ result.tag = "Err"
                           /\ result.kind = "TxFailed"
                           /\ result.d = resp.ret.v[1]

\* a failed transaction found on a later poll, after a "not found"
C1_Witness ==
    /\ Awaiting /\ pc = "done"
    /\ Len(RequestsTo(log, PollPath)) >= 2
    /\ log[Len(log)].class = "found"
    /\ WellFormedInfo(resp) /\ resp.ret.v # <<>> /\ resp.ret.v[1] = "REVERT"
    /\ result.tag = "Err" /\ result.kind = "TxFailed"

OnlyNotFoundSoFar ==
    \A i \in 1..Len(log) : log[i].ev = "response" => log[i].class = "not_found"

\* C2: as long as every poll of await_confirmation was answered "not
\* found", the call has not returned and its events are poll, answer, sleep,
\* poll, answer, sleep, ...: the first event is a poll, each sleep lasts
\* poll_interval, exactly one sleep separates two polls, and a sleep is
\* followed by the next poll however many polls were made (up to MaxPolls,
\* where the model stops).
C2_SleepsOnceBetweenPolls ==
    (Awaiting /\ OnlyNotFoundSoFar) =>
        /\ pc \in {"poll", "sleeping"}
        /\ \A i \in 1..Len(log) :
              CASE i % 3 = 1 -> log[i] = PollRequest(op.txid)
                [] i % 3 = 2 -> log[i].ev = "response"
                [] i % 3 = 0 -> log[i].ev = "sleep" /\ log[i].dur = poll_interval
        /\ pc = "poll" <=> Len(log) % 3 = 1
        /\ pc = "sleeping" <=> Len(log) % 3 = 0
        /\ (pc = "sleeping" /\ Len(log) < 3 * MaxPolls) => ENABLED SleepDone

\* the third poll is in flight after two "not found"
C2_Witness ==
    /\ Awaiting /\ OnlyNotFoundSoFar /\ pc = "poll"
    /\ Len(RequestsTo(log, PollPath)) = 3
    /\ Len(Sleeps(log)) = 2

\* C3: a transport error on a poll of await_confirmation is the last event
\* of the call (no sleep, no poll after it), and the call has returned the
\* transport error.
C3_TransportErrorEndsLoop ==
    Awaiting =>
        \A i \in 1..Len(log) :
            (log[i].ev = "response" /\ log[i].class = "transport_error") =>
                /\ i = Len(log)
                /\ pc = "done"
                /\ result = TransportErr

\* the transport fails on a later poll
C3_Witness ==
    /\ Awaiting /\ pc = "done"
    /\ Len(RequestsTo(log, PollPath)) >= 2
    /\ resp = TransportFailure
    /\ result = TransportErr

-----------------------------------------------------------------------------
(* broadcast_transaction: C4, C5, C6 *)

Broadcasting == op.name = "broadcast_transaction"

\* The encoding direction, to state what "valid hex-encoded UTF-8" is
\* without the decoders: the UTF-8 bytes of a code point (one or two bytes
\* are all a message of MaxMsgLen + 1 characters can hold) ...
Utf8Bytes(cp) ==
    IF cp < 128 THEN <<cp>> ELSE <<192 + (cp \div 64), 128 + (cp % 64)>>

RECURSIVE Utf8Encode(_)
Utf8Encode(text) ==
    IF text = <<>> THEN <<>> ELSE Utf8Bytes(Head(text)) \o Utf8Encode(Tail(text))

\* ... and the characters that write a nibble in hex, in either case
HexDigits(n) == IF n < 10 THEN {48 + n} ELSE {87 + n, 55 + n}

IsHexOf(msg, bytes) ==
    /\ Len(msg) = 2 * Len(bytes)
    /\ \A i \in 1..Len(bytes) :
          /\ msg[2 * i - 1] \in HexDigits(bytes[i] \div 16)
          /\ msg[2 * i] \in HexDigits(bytes[i] % 16)

\* the code points whose hex-encoded UTF-8 can be written with MsgChars
TextChars ==
    {cp \in 0..2047 :
        \A i \in 1..Len(Utf8Bytes(cp)) :
            /\ HexDigits(Utf8Bytes(cp)[i] \div 16) \cap MsgChars # {}
            /\ HexDigits(Utf8Bytes(cp)[i] % 16) \cap MsgChars # {}}
Texts == SeqsUpTo(TextChars, (MaxMsgLen + 1) \div 2)

\* the texts a message is the hex-encoded UTF-8 of (at most one)
TextsOf(msg) == {t \in Texts : IsHexOf(msg, Utf8Encode(t))}

\* what the call is to return on a body with a code and a message
ExpectedMessage(msg) ==
    IF TextsOf(msg) # {} THEN CHOOSE t \in TextsOf(msg) : TRUE ELSE msg

BroadcastErrorBody ==
    /\ Broadcasting /\ Ended
    /\ resp # TransportFailure
    /\ resp.code.some

\* C4: for every broadcast response with an error code, broadcast_transaction
\* returns TxConstructionFailed(code, m), m being the text the message is
\* the hex-encoded UTF-8 of when there is one and the message as received
\* otherwise.
C4_DecodedOrRawMessage ==
    BroadcastErrorBody =>
        /\ result.tag = "Err"
        /\ result.kind = "TxConstructionFailed"
        /\ result.d[1] = resp.code.v
        /\ resp.message.some => result.d[2] = ExpectedMessage(resp.message.v)

\* what holds of the code: the same, for the bodies that carry a message
C4_DecodedOrRawMessageWhenPresent ==
    (BroadcastErrorBody /\ resp.message.some) =>
        /\ result.tag = "Err"
        /\ result.kind = "TxConstructionFailed"
        /\ result.d = <<resp.code.v, ExpectedMessage(resp.message.v)>>

\* C5: on a broadcast response with an error code and no message,
\* broadcast_transaction returns TxConstructionFailed(code, "Unknown error").
C5_UnknownErrorWithoutMessage ==
    (BroadcastErrorBody /\ ~resp.message.some) =>
        /\ result.tag = "Err"
        /\ result.kind = "TxConstructionFailed"
        /\ result.d = <<resp.code.v, UnknownError>>

\* C6: whatever optional fields the responses carry, an operation ends by
\* returning a value or a typed error: it never panics.
C6_NoPanic == Ended => result.tag \in {"Ok", "Err"}

-----------------------------------------------------------------------------
(* deploy_contract: C7, C8 *)

Deploying == op.name = "deploy_contract"

IsRequestTo(e, path) == e.ev = "request" /\ e.path = path
IndicesOf(path) == {i \in 1..Len(log) : IsRequestTo(log[i], path)}
SignIndices == {i \in 1..Len(log) : log[i].ev = "sign"}

\* C7: deploy_contract goes through construct-request, sign, broadcast,
\* await-confirmation, address-extraction in this order.  The signer is
\* invoked once the construction response has arrived, exactly once, and
\* before the broadcast request, which carries the transaction as the
\* signer left it; the polls come after the broadcast request; an address
\* is returned only after all of this.
C7_DeployStagesInOrder ==
    Deploying =>
        /\ IndicesOf(DeployPath) = {1}
        /\ Cardinality(SignIndices) <= 1
        /\ Cardinality(IndicesOf(BroadcastPath)) <= 1
        /\ (Len(log) >= 2 /\ log[2].class = "body") => SignIndices = {3}
        /\ SignIndices # {} => (log[2].ev = "response" /\ log[2].class = "body")
        /\ \A j \in IndicesOf(BroadcastPath) :
              /\ SignIndices = {j - 1}
              /\ log[j].body = [log[j - 1].tx EXCEPT !.signature = Append(@, "sig")]
              /\ log[j].body.signature # <<>>
        /\ \A k \in IndicesOf(PollPath) :
              \E j \in IndicesOf(BroadcastPath) : j < k
        /\ (Ended /\ result.tag = "Ok") =>
              /\ result.v \in Addresses
              /\ IndicesOf(PollPath) # {}
              /\ log[Len(log)].ev = "response" /\ log[Len(log)].class = "found"

\* a deploy that went through all five stages and returned the address
C7_Witness ==
    /\ Deploying /\ pc = "done" /\ result.tag = "Ok"
    /\ Cardinality(SignIndices) = 1
    /\ Cardinality(IndicesOf(BroadcastPath)) = 1
    /\ Cardinality(IndicesOf(PollPath)) >= 2

\* deploy_contract ended in its last stage: await_confirmation returned the
\* transaction and it has a contract entry
DeployExtracted ==
    /\ Deploying /\ Ended
    /\ log[Len(log)].ev = "response" /\ log[Len(log)].class = "found"
    /\ WellFormedInfo(resp)
    /\ resp.ret.v # <<>> /\ resp.ret.v[1] = "SUCCESS"
    /\ resp.contract.v # <<>>

IsObject(v) == v.t = "obj"
Has(v, k) == IsObject(v) /\ k \in DOMAIN v.f
Lacks(v, k) == IsObject(v) /\ k \notin DOMAIN v.f
IsUnknownResponse(r, detail) ==
    r.tag = "Err" /\ r.kind = "UnknownResponse" /\ r.d = detail

\* C8: when the first contract entry of the confirmed transaction holds a
\* valid address string at value.new_contract.contract_address,
\* deploy_contract returns that address; when the parameter lacks "value",
\* or its value lacks "new_contract", or that lacks "contract_address", it
\* fails with UnknownResponse naming the (outermost) missing field.
C8_AddressOrMissingField ==
    DeployExtracted =>
        LET p == resp.contract.v[1].parameter
        IN  /\ Lacks(p, "value") => IsUnknownResponse(result, "no value field")
            /\ (Has(p, "value") /\ Lacks(p.f["value"], "new_contract")) =>
                  IsUnknownResponse(result, "no new_contract field")
            /\ (/\ Has(p, "value") /\ Has(p.f["value"], "new_contract")
                /\ Lacks(p.f["value"].f["new_contract"], "contract_address")) =>
                  IsUnknownResponse(result, "no contract_address field")
            /\ (/\ Has(p, "value") /\ Has(p.f["value"], "new_contract")
                /\ Has(p.f["value"].f["new_contract"], "contract_address")) =>
                  LET a == p.f["value"].f["new_contract"].f["contract_address"]
                  IN  (a.t = "str" /\ ParseAddress(a.s).some) =>
                          result = Ok(ParseAddress(a.s).v)

\* the confirmed transaction has value.new_contract, without contract_address
C8_Witness ==
    /\ DeployExtracted
    /\ LET p == resp.contract.v[1].parameter
       IN  /\ Has(p, "value") /\ Has(p.f["value"], "new_contract")
           /\ Lacks(p.f["value"].f["new_contract"], "contract_address")
    /\ IsUnknownResponse(result, "no contract_address field")

-----------------------------------------------------------------------------
(* trigger_contract: C9, C10 *)

Triggering == op.name = "trigger_contract"

\* C9: trigger_contract sends at most one trigger request, and exactly one
\* when it succeeds.  With a fee limit given, the trigger request is the
\* only request of the call and carries that fee limit.  With none, the
\* trigger request follows the two answered requests of estimate_fee_limit
\* and carries its result for these answers; a call that ends on one of
\* the two estimation answers has failed and has sent no trigger request.
C9_FeeLimitGivenOrEstimated ==
    Triggering =>
        /\ Cardinality(IndicesOf(TriggerPath)) <= 1
        /\ (Ended /\ result.tag = "Ok") => Cardinality(IndicesOf(TriggerPath)) = 1
        /\ op.fee_limit.some =>
              /\ log[1] = TriggerRequest(op.call, op.value, op.fee_limit.v)
              /\ IndicesOf(ChainParamsPath) = {}
              /\ IndicesOf(QueryPath) = {}
        /\ ~op.fee_limit.some =>
              /\ \A j \in IndicesOf(TriggerPath) :
                    /\ j = 5
                    /\ IsRequestTo(log[1], ChainParamsPath)
                    /\ log[2].ev = "response"
                    /\ IsRequestTo(log[3], QueryPath)
                    /\ log[4].ev = "response"
                    /\ \E fee \in {EnergyFee(log[2].body)} :
                          /\ fee.tag = "Ok"
                          /\ Ok(log[j].body.fee_limit) \in FeeLimitOutcomes(log[4].body, fee.v)
                    /\ log[j].body.call = op.call
                    /\ log[j].body.call_value = op.value
              /\ (Ended /\ Len(log) <= 4) =>
                    /\ result.tag # "Ok"
                    /\ IndicesOf(TriggerPath) = {}

\* no fee limit given: the estimate (1000 * 420) is in the trigger request
C9_Witness ==
    /\ Triggering /\ ~op.fee_limit.some /\ pc = "trigger"
    /\ log[4].body.energy_used = 1000
    /\ energy_fee = Some(420)
    /\ log[5].body.fee_limit = 420000

SucceededWithoutFeeLimit ==
    Triggering /\ ~op.fee_limit.some /\ pc = "done" /\ result.tag = "Ok"

\* C10, as claimed: a successful trigger_contract without a fee limit has
\* made exactly two round trips.
C10_TwoRoundTrips ==
    SucceededWithoutFeeLimit => Len(Requests(log)) = 2

\* C10, as the code has it: a successful trigger_contract without a fee
\* limit has made exactly three round trips, each answered: the chain
\* parameters, the constant call, the trigger.
C10_ThreeRoundTrips ==
    SucceededWithoutFeeLimit =>
        /\ Len(Requests(log)) = 3
        /\ Len(Responses(log)) = 3
        /\ Len(log) = 6
        /\ IsRequestTo(log[1], ChainParamsPath)
        /\ IsRequestTo(log[3], QueryPath)
        /\ IsRequestTo(log[5], TriggerPath)

C10_Witness ==
    /\ SucceededWithoutFeeLimit
    /\ result.v \in Transactions
    /\ Len(Requests(log)) = 3

-----------------------------------------------------------------------------
(* estimate_fee_limit: C11, C12, C13 *)

Estimating == op.name = "estimate_fee_limit"

\* the values the chain parameters give for getEnergyFee: that of the last
\* entry of this name that carries a value
EnergyFeeValues(list) ==
    {list[i].value.v : i \in {i \in 1..Len(list) :
        /\ list[i].key = "getEnergyFee" /\ list[i].value.some
        /\ \A j \in (i + 1)..Len(list) :
              ~(list[j].key = "getEnergyFee" /\ list[j].value.some)}}

\* the constant call succeeded: a result list that is not empty, no code
QuerySucceeded(b) == b.constant_result # <<>> /\ ~b.code.some

\* estimate_fee_limit has ended on the answer to its constant call, which
\* succeeded, the chain parameters having given a getEnergyFee
EstimatedFrom(e, f) ==
    /\ Estimating /\ Ended /\ Len(log) = 4
    /\ log[2].class = "body" /\ log[4].class = "body"
    /\ f \in EnergyFeeValues(log[2].body.chainParameter)
    /\ QuerySucceeded(log[4].body)
    /\ e = log[4].body.energy_used

\* C11: for every energy_used e of a successful query_contract and every
\* getEnergyFee value f, estimate_fee_limit returns e * f.
C11_ReturnsProduct ==
    \A e \in Energies, f \in Fees :
        EstimatedFrom(e, f) => result = Ok(e * f)

\* what holds of the code: the product, for a fee that is not negative and
\* a product within the range of u64 (1000 * 420 = 420000 among them)
C11_ProductWhenInRange ==
    \A e \in Energies, f \in Fees :
        (EstimatedFrom(e, f) /\ f >= 0 /\ e * f < U64Mod) => result = Ok(e * f)

\* C12: when energy * fee exceeds the range of u64, estimate_fee_limit
\* returns an error or the saturated value: it neither panics nor returns
\* the product modulo 2^64.
C12_OverflowGuarded ==
    \A e \in Energies, f \in Fees :
        (EstimatedFrom(e, f) /\ f >= 0 /\ e * f >= U64Mod) =>
            \/ result.tag = "Err"
            \/ result = Ok(U64Mod - 1)

\* the call began with the request of estimate_fee_limit for the chain
\* parameters and these have arrived
ChainParametersArrived ==
    /\ Len(log) >= 2
    /\ IsRequestTo(log[1], ChainParamsPath)
    /\ log[2].ev = "response" /\ log[2].class = "body"

\* C13: when no getEnergyFee entry of the chain parameters carries a value
\* (there is none, or none with a value), estimate_fee_limit fails with
\* UnknownResponse on the answer to the chain-parameter request, and no
\* constant-contract query is sent.
C13_NoEnergyFeeNoQuery ==
    (ChainParametersArrived /\ EnergyFeeValues(log[2].body.chainParameter) = {}) =>
        /\ pc = "done"
        /\ result.tag = "Err" /\ result.kind = "UnknownResponse"
        /\ Len(log) = 2
        /\ IndicesOf(QueryPath) = {}

\* getEnergyFee is there, without a value, next to a parameter with one
C13_Witness ==
    /\ Estimating /\ ChainParametersArrived /\ pc = "done"
    /\ \E i, j \in 1..Len(log[2].body.chainParameter) :
          /\ log[2].body.chainParameter[i] = [key |-> "getEnergyFee", value |-> None]
          /\ log[2].body.chainParameter[j].key # "getEnergyFee"
          /\ log[2].body.chainParameter[j].value.some
    /\ result = Err("UnknownResponse", "getEnergyFee not found")

-----------------------------------------------------------------------------
(* query_contract: C14, C15 *)

\* query_contract has ended on a response that is a QueryContractResponse
QueryAnswered ==
    /\ op.name = "query_contract" /\ Ended
    /\ resp # TransportFailure

\* C14: on a response with an empty constant-result list query_contract
\* fails with ContractNotFound, whatever energy_used is and whether or not
\* the result object carries an error code (or a message).
C14_EmptyListIsContractNotFound ==
    (QueryAnswered /\ resp.constant_result = <<>>) =>
        /\ pc = "done"
        /\ result.tag = "Err" /\ result.kind = "ContractNotFound"

\* an empty list in a response that has an error code, no message and
\* energy_used 1000
C14_Witness ==
    /\ QueryAnswered /\ resp.constant_result = <<>>
    /\ resp.code.some /\ ~resp.message.some /\ resp.energy_used = 1000
    /\ result.tag = "Err" /\ result.kind = "ContractNotFound"

\* C15: on a response with a constant-result list that is not empty,
\* query_contract fails with ContractQueryFailed(code, message) when the
\* result object carries an error code and returns the response as it is
\* when it carries none.
C15_QueryFailedOrResponse ==
    (QueryAnswered /\ resp.constant_result # <<>>) =>
        IF resp.code.some
        THEN /\ result.tag = "Err" /\ result.kind = "ContractQueryFailed"
             /\ result.d[1] = resp.code.v
             /\ resp.message.some => result.d[2] = resp.message.v
        ELSE result = Ok(resp)

\* what holds of the code: the same, for the responses whose error code
\* comes with a message
C15_QueryFailedOrResponseWithMessage ==
    (QueryAnswered /\ resp.constant_result # <<>> /\ (resp.code.some => resp.message.some)) =>
        IF resp.code.some
        THEN result = Err("ContractQueryFailed", <<resp.code.v, resp.message.v>>)
        ELSE result = Ok(resp)

-----------------------------------------------------------------------------
(* solidity_get_tx_by_id: C16 *)

\* solidity_get_tx_by_id, called on its own, has ended on a response that
\* is a JSON value
SolidityAnswered ==
    /\ op.name = "solidity_get_tx_by_id" /\ Ended
    /\ resp # TransportFailure

\* C16: solidity_get_tx_by_id returns Ok(None) on every response without a
\* txID field, whatever else the response holds, and fails with
\* UnknownResponse on a response that has a txID but not the shape of a
\* transaction.
C16_NoTxIdIsNone ==
    SolidityAnswered =>
        /\ pc = "done"
        /\ ~resp.txID.some => result = Ok(None)
        /\ (resp.txID.some /\ ~(resp.ret.some /\ resp.contract.some)) =>
              result.tag = "Err" /\ result.kind = "UnknownResponse"

\* a response that has everything of a successful transaction but the txID
C16_Witness ==
    /\ SolidityAnswered
    /\ ~resp.txID.some
    /\ resp.ret = Some(<<"SUCCESS">>) /\ resp.contract.some
    /\ result = Ok(None)

-----------------------------------------------------------------------------
(* get_account_balance: C17 *)

AccountAnswered ==
    /\ op.name = "get_account_balance" /\ Ended
    /\ resp # TransportFailure

\* C17: get_account_balance fails with AccountNotFound on a response
\* without a balance, and returns the balance of a response that has one:
\* 500000 for 500000, 0 for 0.
C17_BalanceOrAccountNotFound ==
    AccountAnswered =>
        IF resp.balance.some
        THEN result = Ok(resp.balance.v)
        ELSE result = Err("AccountNotFound", "")

\* a balance of 0 that is returned as 0
C17_Witness ==
    /\ AccountAnswered
    /\ resp.balance = Some(0)
    /\ result = Ok(0)

-----------------------------------------------------------------------------
(* one round trip per Transport call: C18 *)

\* the operations that run the confirmation poll: await_confirmation, and
\* deploy_contract by calling it
Polls == op.name \in {"await_confirmation", "deploy_contract"}

\* the most requests an operation sends, the polls of await_confirmation
\* left out
RequestBound(name) ==
    CASE name = "trigger_contract" -> 3
      [] name = "estimate_fee_limit" -> 2
      [] name = "deploy_contract" -> 2
      [] name = "await_confirmation" -> 0
      [] OTHER -> 1

PollIndices == IF Polls THEN IndicesOf(PollPath) ELSE {}
RequestIndices == {i \in 1..Len(log) : log[i].ev = "request"}

\* C18: outside the confirmation poll no request is sent twice and each
\* operation sends a fixed bounded number of requests; every request is
\* answered once before the next is sent, and a transport failure is the
\* last thing that happens: it is the error the operation returns, and no
\* request follows it.
C18_OneRoundTripNoRetry ==
    /\ \A i, j \in RequestIndices \ PollIndices :
          (log[i].path = log[j].path) => i = j
    /\ op.name # "none" =>
          Cardinality(RequestIndices \ PollIndices) <= RequestBound(op.name)
    /\ Len(Responses(log)) <= Len(Requests(log))
    /\ Len(Requests(log)) <= Len(Responses(log)) + 1
    /\ \A i \in 1..Len(log) :
          (log[i].ev = "response" /\ log[i].class = "transport_error") =>
              /\ i = Len(log)
              /\ pc = "done"
              /\ result = TransportErr

\* trigger_contract whose second request, the constant call, fails in
\* transport: the error is returned and the trigger request is never sent
C18_Witness ==
    /\ Triggering /\ pc = "done"
    /\ Len(log) = 4
    /\ IsRequestTo(log[1], ChainParamsPath) /\ log[2].class = "body"
    /\ IsRequestTo(log[3], QueryPath) /\ log[4].class = "transport_error"
    /\ IndicesOf(TriggerPath) = {}
    /\ result = TransportErr

-----------------------------------------------------------------------------
(* Operations invoked concurrently on one client *)

(* The caller holds several futures of one client at once (join_all over
   CLIENT.get_tx_info_by_id in tests/client.rs) and the executor runs each
   of them from one await to the next in any order.  In this specification
   rpc_url and poll_interval are the one configuration all calls read, and
   every other variable holds one value per task: op[t], pc[t], the local
   energy_fee[t], the responses resp[t] the task has received so far,
   result[t] and the events log[t] of the task. *)

MaxTasks == 2
Tasks == 1..MaxTasks

\* JSON-RPC: RpcPayload::init and RpcResponse
RpcRequestId == 64
RpcPath == "jsonrpc"
RpcPayloadInit(method, params) ==
    [jsonrpc |-> "2.0", id |-> RpcRequestId, method |-> method, params |-> params]
RpcRequest(method, params) == Request(RpcPath, RpcPayloadInit(method, params))
RpcBodies == [json_rpc : {"2.0", "1.0"}, id : {RpcRequestId, 7}, result : {"0x10"}]
RpcResponses == {TransportFailure} \cup RpcBodies

\* an rpc_call that takes only the response that carries the id it sent
RpcCall_ChecksId(r) ==
    IF r = TransportFailure THEN TransportErr
    ELSE IF r.id # RpcRequestId THEN Err("UnknownResponse", "id")
    ELSE Ok(r)

\* rpc_call, from the response to its request on: the deserialized
\* RpcResponse as it is
RpcCall(r) ==
    IF r = TransportFailure THEN TransportErr ELSE Ok(r)

\* get_tx_info_by_id: the deserialized TransactionInfo as it is
TxInfoPath == "/wallet/gettransactioninfobyid"
TxInfoBodies == [id : TxIds, blockNumber : {1, 2}]
TxInfoResponses == {TransportFailure} \cup TxInfoBodies
GetTxInfoById(r) ==
    IF r = TransportFailure THEN TransportErr ELSE Ok(r)

\* the responses the concurrent calls are run on
TaskChainParamResponses ==
    {r \in ChainParamResponses :
        \/ r = TransportFailure
        \/ r.chainParameter = <<>>
        \/ /\ Len(r.chainParameter) = 1
           /\ r.chainParameter[1].key = "getEnergyFee"
           /\ r.chainParameter[1].value \in {Some(420), Some(2100)}}
TaskQueryResponses ==
    {r \in QueryResponses :
        \/ r = TransportFailure
        \/ /\ ~r.code.some /\ ~r.message.some
           /\ \/ r.constant_result = <<>> /\ r.energy_used = 0
              \/ r.constant_result # <<>> /\ r.energy_used # 0}
TaskSolidityResponses ==
    {r \in SolidityResponses :
        \/ r = TransportFailure
        \/ /\ r.contract = Some(<<>>)
           /\ \/ ~r.txID.some /\ ~r.ret.some
              \/ r.txID = Some("txA") /\ r.ret \in {Some(<<>>), Some(<<"SUCCESS">>)}}

ConcInit ==
    /\ rpc_url \in Urls
    /\ poll_interval \in PollIntervals
    /\ op = [t \in Tasks |-> [name |-> "none"]]
    /\ pc = [t \in Tasks |-> "idle"]
    /\ tx = [t \in Tasks |-> None]
    /\ txid = [t \in Tasks |-> None]
    /\ energy_fee = [t \in Tasks |-> None]
    /\ resp = [t \in Tasks |-> <<>>]
    /\ result = [t \in Tasks |-> NoResult]
    /\ log = [t \in Tasks |-> <<>>]

\* a client that keeps the energy fee in one field shared by all its calls
FeeSlot_Shared(t) == 1

\* let energy_fee = ..: a local of the call, one per future
FeeSlot(t) == t

\* task t sends the first request of operation o
TaskCall(t, o, request) ==
    /\ pc[t] = "idle"
    /\ op' = [op EXCEPT ![t] = o]
    /\ log' = [log EXCEPT ![t] = <<request>>]
    /\ UNCHANGED <<Config, tx, txid, energy_fee, resp, result>>

\* task t receives response r and goes on to its next await, in state next
TaskGoesOn(t, r, events, next) ==
    /\ resp' = [resp EXCEPT ![t] = Append(@, r)]
    /\ log' = [log EXCEPT ![t] = Append(@, Response(r)) \o events]
    /\ pc' = [pc EXCEPT ![t] = next]
    /\ UNCHANGED result

\* task t receives response r and returns v (or panics)
TaskFinish(t, r, v) ==
    /\ resp' = [resp EXCEPT ![t] = Append(@, r)]
    /\ log' = [log EXCEPT ![t] = Append(@, Response(r))]
    /\ pc' = [pc EXCEPT ![t] = IF v.tag = "Panic" THEN "panicked" ELSE "done"]
    /\ result' = [result EXCEPT ![t] = v]

TaskEnded(t) == pc[t] \in {"done", "panicked"}

(* get_tx_info_by_id *)

Task_get_tx_info_by_id(t) ==
    /\ \E id \in TxIds :
          TaskCall(t, [name |-> "get_tx_info_by_id", txid |-> id],
                   Request(TxInfoPath, [value |-> id]))
    /\ pc' = [pc EXCEPT ![t] = "tx_info"]

TaskTxInfoResponse(t) ==
    /\ pc[t] = "tx_info"
    /\ \E r \in TxInfoResponses : TaskFinish(t, r, GetTxInfoById(r))
    /\ UNCHANGED <<Config, op, tx, txid, energy_fee>>

(* eth_block_number *)

Task_eth_block_number(t) ==
    /\ TaskCall(t, [name |-> "eth_block_number"], RpcRequest("eth_blockNumber", <<>>))
    /\ pc' = [pc EXCEPT ![t] = "rpc"]

TaskRpcResponse(t) ==
    /\ pc[t] = "rpc"
    /\ \E r \in RpcResponses : TaskFinish(t, r, RpcCall(r))
    /\ UNCHANGED <<Config, op, tx, txid, energy_fee>>

(* estimate_fee_limit *)

Task_estimate_fee_limit(t) ==
    /\ \E c \in MethodCalls :
          TaskCall(t, [name |-> "estimate_fee_limit", call |-> c],
                   Request(ChainParamsPath, "none"))
    /\ pc' = [pc EXCEPT ![t] = "chain_params"]

TaskChainParamsResponse(t) ==
    /\ pc[t] = "chain_params"
    /\ \E r \in TaskChainParamResponses :
        LET fee == EnergyFee(r)
        IN  IF fee.tag # "Ok"
            THEN /\ TaskFinish(t, r, fee)
                 /\ UNCHANGED energy_fee
            ELSE /\ energy_fee' = [energy_fee EXCEPT ![FeeSlot(t)] = Some(fee.v)]
                 /\ TaskGoesOn(t, r, <<QueryRequest(op[t].call)>>, "query")
    /\ UNCHANGED <<Config, op, tx, txid>>

TaskQueryResponse(t) ==
    /\ pc[t] = "query"
    /\ energy_fee[FeeSlot(t)].some
    /\ \E r \in TaskQueryResponses :
        \E limit \in FeeLimitOutcomes(r, energy_fee[FeeSlot(t)].v) :
            TaskFinish(t, r, limit)
    /\ UNCHANGED <<Config, op, tx, txid, energy_fee>>

(* await_confirmation *)

Task_await_confirmation(t) ==
    /\ TaskCall(t, [name |-> "await_confirmation", txid |-> "txA"], PollRequest("txA"))
    /\ pc' = [pc EXCEPT ![t] = "poll"]

TaskPollResponse(t) ==
    /\ pc[t] = "poll"
    /\ \E r \in TaskSolidityResponses :
        LET step == ConfirmationStep(r)
        IN  IF ~step.some
            THEN TaskGoesOn(t, r, SleepCalls(poll_interval), "sleeping")
            ELSE TaskFinish(t, r, step.v)
    /\ UNCHANGED <<Config, op, tx, txid, energy_fee>>

TaskSleepDone(t) ==
    /\ pc[t] = "sleeping"
    /\ Len(RequestsTo(log[t], PollPath)) < MaxPolls
    /\ log' = [log EXCEPT ![t] = Append(@, PollRequest(op[t].txid))]
    /\ pc' = [pc EXCEPT ![t] = "poll"]
    /\ UNCHANGED <<Config, op, tx, txid, energy_fee, resp, result>>

\* the caller takes the result: the future and all it held are dropped
TaskReturn(t) ==
    /\ TaskEnded(t)
    /\ op' = [op EXCEPT ![t] = [name |-> "none"]]
    /\ pc' = [pc EXCEPT ![t] = "idle"]
    /\ energy_fee' = [energy_fee EXCEPT ![FeeSlot(t)] = None]
    /\ resp' = [resp EXCEPT ![t] = <<>>]
    /\ result' = [result EXCEPT ![t] = NoResult]
    /\ log' = [log EXCEPT ![t] = <<>>]
    /\ UNCHANGED <<Config, tx, txid>>

ConcNext ==
    \E t \in Tasks :
        \/ Task_get_tx_info_by_id(t)
        \/ TaskTxInfoResponse(t)
        \/ Task_eth_block_number(t)
        \/ TaskRpcResponse(t)
        \/ Task_estimate_fee_limit(t)
        \/ TaskChainParamsResponse(t)
        \/ TaskQueryResponse(t)
        \/ Task_await_confirmation(t)
        \/ TaskPollResponse(t)
        \/ TaskSleepDone(t)
        \/ TaskReturn(t)

ConcSpec == ConcInit /\ [][ConcNext]_vars

-----------------------------------------------------------------------------
(* concurrent calls: C19 *)

\* the results of await_confirmation run alone on the responses rs
AwaitAlone(rs) ==
    IF /\ rs # <<>>
       /\ \A i \in 1..(Len(rs) - 1) : ~ConfirmationStep(rs[i]).some
       /\ ConfirmationStep(rs[Len(rs)]).some
    THEN {ConfirmationStep(rs[Len(rs)]).v}
    ELSE {}

\* the results of estimate_fee_limit run alone on the responses rs
EstimateAlone(rs) ==
    IF rs = <<>> THEN {}
    ELSE IF EnergyFee(rs[1]).tag # "Ok"
         THEN IF Len(rs) = 1 THEN {EnergyFee(rs[1])} ELSE {}
         ELSE IF Len(rs) = 2 THEN FeeLimitOutcomes(rs[2], EnergyFee(rs[1]).v) ELSE {}

\* the results operation o can return when it runs alone and receives the
\* responses rs, in this order, to its requests
RunAlone(o, rs) ==
    CASE o.name = "get_tx_info_by_id" ->
            IF Len(rs) = 1 THEN {GetTxInfoById(rs[1])} ELSE {}
      [] o.name = "eth_block_number" ->
            IF Len(rs) = 1 THEN {RpcCall(rs[1])} ELSE {}
      [] o.name = "estimate_fee_limit" -> EstimateAlone(rs)
      [] o.name = "await_confirmation" -> AwaitAlone(rs)
      [] OTHER -> {}

\* nothing is left of a call once its result is taken
TaskIsFresh(t) ==
    /\ op[t] = [name |-> "none"]
    /\ energy_fee[t] = None
    /\ resp[t] = <<>> /\ result[t] = NoResult /\ log[t] = <<>>

\* every call that has ended returned what it returns alone on its own
\* responses, and a task between two calls holds nothing
Independent ==
    \A t \in Tasks :
        /\ TaskEnded(t) => result[t] \in RunAlone(op[t], resp[t])
        /\ pc[t] = "idle" => TaskIsFresh(t)

\* C19: whatever the interleaving of the calls made concurrently on one
\* client, no step changes the configuration (base URL, poll interval),
\* every call returns what it would return alone on the responses to its
\* own requests, and no state is kept from one call to the next.
C19_ConcurrentCallsIndependent ==
    /\ []Independent
    /\ [][Config' = Config]_vars

\* two estimate_fee_limit in flight at once with different energy fees:
\* the first has returned the product with its own fee, 1000 * 420, while
\* the second, whose fee is 2100, waits for its constant call
C19_Witness ==
    /\ op[1].name = "estimate_fee_limit" /\ op[2].name = "estimate_fee_limit"
    /\ pc[1] = "done" /\ pc[2] = "query"
    /\ energy_fee[2] = Some(2100)
    /\ result[1] = Ok(420000)
    /\ Len(resp[1]) = 2
    /\ resp[1][1].chainParameter = <<[key |-> "getEnergyFee", value |-> Some(420)]>>
    /\ resp[1][2].energy_used = 1000

-----------------------------------------------------------------------------
(* the fixed JSON-RPC id: C20 *)

RpcRequestsOf(t) == RequestsTo(log[t], RpcPath)

\* C20: every request of rpc_call carries jsonrpc "2.0" and the one fixed
\* id, so that the calls in flight at once all carry the same id; and the
\* response to an rpc_call is returned as it is whatever id (and version)
\* it carries.
C20_FixedIdNotMatched ==
    /\ \A t, u \in Tasks :
          \A i \in 1..Len(RpcRequestsOf(t)), j \in 1..Len(RpcRequestsOf(u)) :
              /\ RpcRequestsOf(t)[i].body.jsonrpc = "2.0"
              /\ RpcRequestsOf(t)[i].body.id = RpcRequestId
              /\ RpcRequestsOf(t)[i].body.id = RpcRequestsOf(u)[j].body.id
    /\ \A t \in Tasks :
          (op[t].name = "eth_block_number" /\ TaskEnded(t) /\ resp[t][1] # TransportFailure) =>
              result[t] = Ok(resp[t][1])

\* two eth_block_number in flight at once with the same id, and the first
\* has returned a response whose id is another one
C20_Witness ==
    /\ op[1].name = "eth_block_number" /\ op[2].name = "eth_block_number"
    /\ pc[1] = "done" /\ pc[2] = "rpc"
    /\ log[1][1].body.id = log[2][1].body.id
    /\ resp[1][1] # TransportFailure /\ resp[1][1].id # log[1][1].body.id
    /\ result[1] = Ok(resp[1][1])

-----------------------------------------------------------------------------
(* termination of await_confirmation: C21 *)

(* The loop of await_confirmation has no timeout: it ends when a poll is
   answered by something else than "not found".  LiveSpec is the run of
   await_confirmation in which this happens at the latest at poll MaxPolls,
   every request is answered and every sleep is over after a while. *)

\* a poll is answered; poll number MaxPolls is not answered "not found"
LivePollResponse ==
    /\ PollResponse
    /\ Len(RequestsTo(log, PollPath)) = MaxPolls => pc' # "sleeping"

LiveNext ==
    \/ Call_await_confirmation
    \/ LivePollResponse
    \/ SleepDone

LiveSpec ==
    /\ Init /\ [][LiveNext]_vars
    /\ WF_vars(LivePollResponse)
    /\ WF_vars(SleepDone)

\* await_confirmation has returned after exactly n polls and n - 1 sleeps,
\* where poll n is the first one not answered "not found"
ReturnedAtFirstAnswer ==
    \E n \in 1..Len(Responses(log)) :
        /\ Responses(log)[n].class # "not_found"
        /\ \A i \in 1..(n - 1) : Responses(log)[i].class = "not_found"
        /\ Len(RequestsTo(log, PollPath)) = n
        /\ Len(Sleeps(log)) = n - 1

\* C21: when some poll gets a response that is not "not found" (found, or
\* a transport error) and every request and every sleep completes,
\* await_confirmation eventually returns; and when it has returned, with
\* poll n the first one not answered "not found", it has sent exactly n
\* polls and slept exactly n - 1 times.
C21_EventuallyReturns ==
    /\ Awaiting ~> (Awaiting /\ Ended)
    /\ []((Awaiting /\ Ended) => ReturnedAtFirstAnswer)

\* returned at the third poll, after two sleeps
C21_Witness ==
    /\ Awaiting /\ Ended
    /\ Len(RequestsTo(log, PollPath)) = 3
    /\ Len(Sleeps(log)) = 2
    /\ Responses(log)[1].class = "not_found" /\ Responses(log)[2].class = "not_found"
    /\ Responses(log)[3].class # "not_found"

-----------------------------------------------------------------------------
(* deploy_contract stops at the first failing stage: C22 *)

\* the signer was invoked and left the transaction without a signature
SignerFailed == SignIndices # {} /\ tx.some /\ tx.v.signature = <<>>

\* deploy_contract has ended on the response to its request number i in
\* the log
EndedOnResponseTo(i) == Ended /\ Len(log) = i + 1 /\ log[i + 1].ev = "response"

\* C22: deploy_contract stops at the first stage that fails.  When the
\* construction request fails in transport the signer is not invoked; when
\* the signer fails the result is SignerError and no broadcast request is
\* sent; when the broadcast fails, in transport or with
\* TxConstructionFailed, no poll is sent; and a transport error or TxFailed
\* of await_confirmation is the result of the deploy, whatever address the
\* transaction holds.
C22_StopsAtFirstFailure ==
    Deploying =>
        /\ (Len(log) >= 2 /\ log[2].class = "transport_error") =>
              /\ SignIndices = {} /\ Len(log) = 2
              /\ pc = "done" /\ result = TransportErr
        /\ SignerFailed =>
              /\ pc = "done" /\ result.tag = "Err" /\ result.kind = "SignerError"
              /\ IndicesOf(BroadcastPath) = {} /\ IndicesOf(PollPath) = {}
        /\ \A j \in IndicesOf(BroadcastPath) :
              /\ (Len(log) > j /\ log[j + 1].class = "transport_error") =>
                    /\ EndedOnResponseTo(j) /\ result = TransportErr
                    /\ IndicesOf(PollPath) = {}
              /\ (EndedOnResponseTo(j) /\ resp # TransportFailure) =>
                    /\ resp.code.some
                    /\ resp.message.some =>
                          result.tag = "Err" /\ result.kind = "TxConstructionFailed"
              /\ (Ended /\ result.tag = "Err" /\ result.kind = "TxConstructionFailed") =>
                    EndedOnResponseTo(j) /\ IndicesOf(PollPath) = {}
        /\ (Ended /\ IndicesOf(PollPath) # {}) =>
              /\ log[Len(log)].class = "transport_error" => result = TransportErr
              /\ (/\ log[Len(log)].class = "found" /\ WellFormedInfo(resp)
                  /\ ~(resp.ret.v # <<>> /\ resp.ret.v[1] = "SUCCESS")) =>
                    /\ result.tag = "Err" /\ result.kind = "TxFailed"
                    /\ result.d = IF resp.ret.v # <<>> THEN resp.ret.v[1] ELSE "empty ret"

\* the confirmed transaction has failed (REVERT) and holds the address of a
\* new contract: the deploy returns TxFailed, not the address
C22_Witness ==
    /\ Deploying /\ Ended /\ IndicesOf(PollPath) # {}
    /\ log[Len(log)].class = "found" /\ WellFormedInfo(resp)
    /\ resp.ret.v # <<>> /\ resp.ret.v[1] = "REVERT"
    /\ resp.contract.v # <<>>
    /\ DeployedAddress([ret |-> resp.ret.v, contract |-> resp.contract.v]).tag = "Ok"
    /\ result = Err("TxFailed", "REVERT")

-----------------------------------------------------------------------------
(* a found transaction without results: C23 *)

\* a poll of await_confirmation was answered with a found transaction of
\* the right shape whose result list is empty
FoundWithEmptyRet ==
    /\ Awaiting /\ Len(log) >= 2
    /\ \E i \in 1..Len(log) : log[i].ev = "response" /\ log[i].class = "found"
    /\ WellFormedInfo(resp) /\ resp.ret.v = <<>>

\* C23: when a poll of await_confirmation is answered with a transaction
\* that is found and has an empty result list, the call fails at once with
\* TxFailed("empty ret"): the response is the last event of the call, no
\* sleep and no poll follows it.
C23_EmptyRetFailsAtOnce ==
    /\ Awaiting =>
          \A i \in 1..Len(log) :
              (log[i].ev = "response" /\ log[i].class = "found") =>
                  /\ i = Len(log) /\ pc = "done"
                  /\ (WellFormedInfo(resp) /\ resp.ret.v = <<>>) =>
                        result = Err("TxFailed", "empty ret")
    /\ FoundWithEmptyRet =>
          /\ result = Err("TxFailed", "empty ret")
          /\ log[Len(log)].ev = "response"

\* found with an empty result list at the second poll
C23_Witness ==
    /\ FoundWithEmptyRet /\ pc = "done"
    /\ Len(RequestsTo(log, PollPath)) = 2 /\ Len(Sleeps(log)) = 1
    /\ log[Len(log)].class = "found"
    /\ result = Err("TxFailed", "empty ret")

-----------------------------------------------------------------------------
(* deploy_contract, the other ways the extraction fails: C24 *)

\* deploy_contract ended in its last stage: await_confirmation returned the
\* confirmed transaction
DeployConfirmed ==
    /\ Deploying /\ Ended
    /\ log[Len(log)].ev = "response" /\ log[Len(log)].class = "found"
    /\ WellFormedInfo(resp)
    /\ resp.ret.v # <<>> /\ resp.ret.v[1] = "SUCCESS"

\* the details of UnknownResponse for a missing field (C8)
MissingFieldDetails ==
    {"no value field", "no new_contract field", "no contract_address field"}

\* the first contract entry holds value.new_contract.contract_address
HasContractAddress ==
    /\ resp.contract.v # <<>>
    /\ Has(resp.contract.v[1].parameter, "value")
    /\ Has(resp.contract.v[1].parameter.f["value"], "new_contract")
    /\ Has(resp.contract.v[1].parameter.f["value"].f["new_contract"], "contract_address")
ContractAddressValue ==
    resp.contract.v[1].parameter.f["value"].f["new_contract"].f["contract_address"]

\* C24: when the confirmed transaction has no contract entry,
\* deploy_contract fails with ContractNotFound; when contract_address is
\* there and is not a string it fails with UnknownResponse("returned
\* contract_address is not string"), and when it is a string that is not an
\* address, with UnknownResponse("Invalid address: " followed by the
\* string): neither is one of the three details of a missing field.
C24_NoEntryOrBadAddress ==
    DeployConfirmed =>
        /\ resp.contract.v = <<>> =>
              result.tag = "Err" /\ result.kind = "ContractNotFound"
        /\ (HasContractAddress /\ ContractAddressValue.t # "str") =>
              /\ IsUnknownResponse(result, "returned contract_address is not string")
              /\ result.d \notin MissingFieldDetails
        /\ (/\ HasContractAddress /\ ContractAddressValue.t = "str"
            /\ ~ParseAddress(ContractAddressValue.s).some) =>
              /\ result.tag = "Err" /\ result.kind = "UnknownResponse"
              /\ result.d = <<"Invalid address: ", ContractAddressValue.s>>

\* contract_address is a string that is not an address
C24_Witness ==
    /\ DeployConfirmed /\ HasContractAddress
    /\ ContractAddressValue = JStr("not-an-address")
    /\ result = Err("UnknownResponse", <<"Invalid address: ", "not-an-address">>)

-----------------------------------------------------------------------------
(* a negative energy fee: C25 *)

\* the chain parameters have arrived and give getEnergyFee the negative
\* value f
NegativeFeeArrived(f) ==
    /\ ChainParametersArrived
    /\ f \in EnergyFeeValues(log[2].body.chainParameter)
    /\ f < 0

\* C25: a negative value v of getEnergyFee is not rejected: the fee of the
\* call is v + 2^64 (here 2^U64Bits), the call goes on to the constant call
\* and, when that succeeds, estimate_fee_limit ends with the product of the
\* energy and this fee as the code computes it; no UnknownResponse is
\* raised for the negative fee.
C25_NegativeFeeReinterpreted ==
    \A f \in Fees :
        NegativeFeeArrived(f) =>
            /\ energy_fee = Some(f + U64Mod)
            /\ Len(log) >= 3 /\ IsRequestTo(log[3], QueryPath)
            /\ result.tag = "Err" => result.kind # "UnknownResponse"
            /\ (/\ Estimating /\ Ended /\ log[4].class = "body"
                /\ QuerySucceeded(log[4].body)) =>
                  result \in MulU64(log[4].body.energy_used, f + U64Mod)

\* fee -1 and energy 1: the fee limit is 2^U64Bits - 1
C25_Witness ==
    /\ Estimating /\ Ended /\ NegativeFeeArrived(-1)
    /\ log[4].class = "body" /\ QuerySucceeded(log[4].body)
    /\ log[4].body.energy_used = 1
    /\ result = Ok(U64Mod - 1)

====
